---------------------------- MODULE Spec2Model ----------------------------
(***************************************************************************)
(* Contract ingestion pipeline (ContractProcessor, AIExtractor) and the    *)
(* clarification cycle (Contract.apply_clarifications and the views that   *)
(* drive it).                                                              *)
(*                                                                         *)
(* Database rows are records kept in sequences whose index is the primary  *)
(* key.  Dates are day ordinals, money is whole units, None is the null    *)
(* of a nullable column.  Strings the code only stores are kept as written;*)
(* strings the code parses are parsed by the operators below, which follow *)
(* the format lists and regular expressions of the source.                 *)
(***************************************************************************)
EXTENDS Integers, Sequences, FiniteSets, TLC

VARIABLES contracts, clarifications, milestones, terms, runs, applyLog, today,
          parsed, batch,
          extraction, temp, schedule

vars == <<contracts, clarifications, milestones, terms, runs, applyLog, today,
          parsed, batch,
          extraction, temp, schedule>>

-----------------------------------------------------------------------------
(* Bounds and input sets                                                   *)

\* longest clarifications_needed list an AI response carries
MaxClar == 2
\* longest payment_milestones list an AI response carries
MaxMilestones == 1
\* longest notes log a contract is driven to (each apply can append)
MaxNotes == 3
\* how many apply_clarifications returns are remembered per contract
MaxLog == 2

\* the upload requests, in the order in which they are served
Uploads == <<"r1", "r2">>
Runs == {Uploads[i] : i \in 1..Len(Uploads)}
\* names of the uploaded files
Files == {"a.pdf", "b.pdf"}

None == -1

\* the day ordinal of an ISO date (2024-01-01 is day 0)
Day(iso) ==
    CASE iso = "2024-12-01" -> 335
      [] iso = "2025-01-15" -> 380
      [] iso = "2025-06-01" -> 517
      [] iso = "2025-07-01" -> 547
      [] OTHER -> None

\* timedelta(days=365)
OneYear == 365

-----------------------------------------------------------------------------
(* Small helpers                                                           *)

SeqsUpTo(S, n) == UNION {[1..k -> S] : k \in 0..n}

-----------------------------------------------------------------------------
(* Text values and their parsers                                           *)

\* str.lower() on the texts that occur
Lower(s) ==
    CASE s = "Perpetual" -> "perpetual"
      [] s = "INDEFINITE" -> "indefinite"
      [] s = "EUR" -> "eur"
      [] s = "Canadian Dollars" -> "canadian dollars"
      [] s = "Start_Date" -> "start_date"
      [] s = ".PDF" -> ".pdf"
      [] OTHER -> s

\* surrounding white space kept
StripNothing(s) == s

\* str.strip() on the texts that occur
Strip(s) ==
    CASE s = "   " -> ""
      [] s = " Acme " -> "Acme"
      [] s = " 2024-12-01 " -> "2024-12-01"
      [] OTHER -> s

\* str.title() on the (lower-cased) field names that reach the notes branch
Title(s) ==
    CASE s = "scope" -> "Scope"
      [] s = "unknown" -> "Unknown"
      [] OTHER -> s

\* datetime.strptime(s, fmt).date() as a day ordinal, None for ValueError
StrpTime(s, fmt) ==
    CASE fmt = "%Y-%m-%d" /\ s = "2024-12-01" -> Day("2024-12-01")
      [] fmt = "%Y-%m-%d" /\ s = "2025-06-01" -> Day("2025-06-01")
      [] fmt = "%m/%d/%Y" /\ s = "12/01/2024" -> Day("2024-12-01")
      [] fmt = "%B %d, %Y" /\ s = "December 1, 2024" -> Day("2024-12-01")
      [] fmt = "%d %B %Y" /\ s = "1 December 2024" -> Day("2024-12-01")
      [] OTHER -> None

\* date.strftime('%Y-%m-%d')
StrfTime(d) ==
    CASE d = Day("2024-12-01") -> "2024-12-01"
      [] d = Day("2025-06-01") -> "2025-06-01"
      [] OTHER -> ""

RECURSIVE FirstParse(_, _, _)
\* the first format of fmts (from position i) that parses s wins
FirstParse(s, fmts, i) ==
    IF i > Len(fmts) THEN None
    ELSE IF StrpTime(s, fmts[i]) # None THEN StrpTime(s, fmts[i])
         ELSE FirstParse(s, fmts, i + 1)

ApplyDateFormats == <<"%Y-%m-%d", "%m/%d/%Y", "%d/%m/%Y", "%B %d, %Y", "%d %B %Y">>

OngoingWords == {"ongoing", "perpetual", "indefinite", "none"}

\* re.search(r'^(\d+(?:,\d{3})*(?:\.\d+)?)', answer) with the commas removed
LeadingNumber(s) ==
    CASE s = "50,000" -> 50000
      [] s = "10 hours at $150 per hour" -> 10
      [] OTHER -> None

\* re.findall(r'\d+(?:,\d{3})*(?:\.\d+)?', answer) as Decimals
AllNumbers(s) ==
    CASE s = "50,000" -> {50000}
      [] s = "10 hours at $150 per hour" -> {10, 150}
      [] s = "between 10 and 75000" -> {10, 75000}
      [] OTHER -> {}

SetMax(S) == CHOOSE x \in S : \A y \in S : y <= x

\* the keys of currency_map in dictionary order, and their codes
CurrencyKeys ==
    << <<"dollar", "USD">>, <<"usd", "USD">>, <<"$", "USD">>,
       <<"euro", "EUR">>, <<"eur", "EUR">>, <<"€", "EUR">>,
       <<"pound", "GBP">>, <<"gbp", "GBP">>, <<"£", "GBP">>,
       <<"canadian", "CAD">>, <<"cad", "CAD">>,
       <<"australian", "AUD">>, <<"aud", "AUD">> >>

\* key in text (substring test) on the lower-cased answers that occur
Contains(key, text) ==
    \/ text = "eur" /\ key = "eur"
    \/ text = "canadian dollars" /\ key \in {"dollar", "canadian"}

RECURSIVE CurrencyOf(_, _)
\* the first key of currency_map found in the answer decides; "" when none is
CurrencyOf(text, i) ==
    IF i > Len(CurrencyKeys) THEN ""
    ELSE IF Contains(CurrencyKeys[i][1], text) THEN CurrencyKeys[i][2]
         ELSE CurrencyOf(text, i + 1)

-----------------------------------------------------------------------------
(* Contract.apply_clarifications                                           *)

\* one entry of updates_made: the message, with the value it mentions
Upd(msg, num, str) == [msg |-> msg, num |-> num, str |-> str]

\* notes is a log of clarified entries; '' is the empty log
NoteAppend(notes, label, answer) ==
    Append(notes, [label |-> label, answer |-> answer])

\* re.search(r'(\d+)\s*hours?', ...): a text with digits never reaches this
\* branch, because findall has already found them
HoursOf(s) == None

\* re.search(r'\$?(\d+(?:\.\d+)?)\s*(?:per\s*hour|/hr)', ...)
RateOf(s) == None

\* the total_value branch
ApplyTotalValue(st, answer) ==
    IF LeadingNumber(answer) # None
    THEN [c |-> [st.c EXCEPT !.total_value = LeadingNumber(answer)],
          u |-> Append(st.u, Upd("total_value updated to", LeadingNumber(answer), ""))]
    ELSE IF AllNumbers(answer) # {}
         THEN [c |-> [st.c EXCEPT !.total_value = SetMax(AllNumbers(answer))],
               u |-> Append(st.u, Upd("total_value updated to",
                                      SetMax(AllNumbers(answer)), ""))]
         ELSE IF HoursOf(Lower(answer)) # None /\ RateOf(Lower(answer)) # None
              THEN [c |-> [st.c EXCEPT !.total_value =
                                   HoursOf(Lower(answer)) * RateOf(Lower(answer))],
                    u |-> Append(st.u, Upd("total_value calculated as",
                                   HoursOf(Lower(answer)) * RateOf(Lower(answer)), ""))]
              ELSE st

\* the special words compared without lower-casing the answer
ApplyEndDateCaseSensitive(st, answer) ==
    LET d == FirstParse(answer, ApplyDateFormats, 1)
        s1 == IF d # None
              THEN [c |-> [st.c EXCEPT !.end_date = d],
                    u |-> Append(st.u, Upd("end_date updated to", d, ""))]
              ELSE st
    IN IF answer \in OngoingWords
       THEN [c |-> [s1.c EXCEPT !.end_date = None],
             u |-> Append(s1.u, Upd("end_date set to None (ongoing)", None, ""))]
       ELSE s1

\* the end_date branch: the date formats first, then the special words
ApplyEndDate(st, answer) ==
    LET d == FirstParse(answer, ApplyDateFormats, 1)
        s1 == IF d # None
              THEN [c |-> [st.c EXCEPT !.end_date = d],
                    u |-> Append(st.u, Upd("end_date updated to", d, ""))]
              ELSE st
    IN IF Lower(answer) \in OngoingWords
       THEN [c |-> [s1.c EXCEPT !.end_date = None],
             u |-> Append(s1.u, Upd("end_date set to None (ongoing)", None, ""))]
       ELSE s1

\* the body of the loop for one answered clarification; st = [c, u] is the
\* in-memory contract and updates_made so far
ApplyOne(st, cl) ==
    LET field_name == Lower(cl.field_name)
        answer == cl.user_answer
    IN CASE field_name = "start_date" ->
              LET d == FirstParse(answer, ApplyDateFormats, 1)
              IN IF d # None
                 THEN [c |-> [st.c EXCEPT !.start_date = d],
                       u |-> Append(st.u, Upd("start_date updated to", d, ""))]
                 ELSE st
         [] field_name = "end_date" -> ApplyEndDate(st, answer)
         [] field_name = "client_name" ->
              [c |-> [st.c EXCEPT !.client_name = answer],
               u |-> Append(st.u, Upd("client_name updated to", None, answer))]
         [] field_name = "total_value" -> ApplyTotalValue(st, answer)
         [] field_name = "payment_terms" ->
              [c |-> [st.c EXCEPT !.notes = NoteAppend(@, "Payment Terms", answer)],
               u |-> Append(st.u, Upd("payment_terms added to notes", None, ""))]
         [] field_name = "currency" ->
              IF CurrencyOf(Lower(answer), 1) # ""
              THEN [c |-> [st.c EXCEPT !.currency = CurrencyOf(Lower(answer), 1)],
                    u |-> Append(st.u, Upd("currency updated to", None,
                                           CurrencyOf(Lower(answer), 1)))]
              ELSE st
         [] field_name = "contract_number" ->
              [c |-> [st.c EXCEPT !.contract_number = answer],
               u |-> Append(st.u, Upd("contract_number updated to", None, answer))]
         [] OTHER ->
              [c |-> [st.c EXCEPT !.notes = NoteAppend(@, Title(field_name), answer)],
               u |-> Append(st.u, Upd("added to notes", None, field_name))]

\* ids of the answered clarifications of contract id, in queryset order:
\* Meta.ordering is -created_at, so the newest row comes first
RECURSIVE AnsweredOf(_, _, _)
AnsweredOf(rows, id, i) ==
    IF i = 0 THEN <<>>
    ELSE IF rows[i].contract = id /\ rows[i].answered
         THEN <<i>> \o AnsweredOf(rows, id, i - 1)
         ELSE AnsweredOf(rows, id, i - 1)

RECURSIVE ApplyLoop(_, _, _, _)
ApplyLoop(st, rows, ids, k) ==
    IF k > Len(ids) THEN st
    ELSE ApplyLoop(ApplyOne(st, rows[ids[k]]), rows, ids, k + 1)

RECURSIVE RowsOfContract(_, _, _)
RowsOfContract(rows, id, i) ==
    IF i = 0 THEN <<>>
    ELSE IF rows[i].contract = id
         THEN <<i>> \o RowsOfContract(rows, id, i - 1)
         ELSE RowsOfContract(rows, id, i - 1)

\* a loop over every clarification of the contract, answered or not
ApplyEveryClarification(c, id, rows) ==
    ApplyLoop([c |-> c, u |-> <<>>], rows, RowsOfContract(rows, id, Len(rows)), 1)

\* the in-memory contract and updates_made when the loop ends, before the save
ApplyClarifications(c, id, rows) ==
    ApplyLoop([c |-> c, u |-> <<>>], rows, AnsweredOf(rows, id, Len(rows)), 1)

-----------------------------------------------------------------------------
(* Database rows                                                           *)

\* len() of the texts whose length a column limits
StrLen(s) == IF s = "x256" THEN 256 ELSE 8

\* max_length of PaymentMilestone.milestone_name
MilestoneNameMax == 255

\* hash(pdf_file.name) % 100000 inside one server process: a function of the
\* name, so one name always gives one number
ContractNumberFor(file) ==
    CASE file = "a.pdf" -> "T-a"
      [] file = "b.pdf" -> "T-b"
      [] OTHER -> "T-z"

\* Contract.objects.create(...) of _create_initial_contract
InitialContract(file) ==
    [status |-> "processing",
     contract_number |-> ContractNumberFor(file),
     client_name |-> "To be extracted",
     total_value |-> None,
     currency |-> "USD",
     start_date |-> None,
     end_date |-> None,
     notes |-> <<>>]

\* contract_number is unique: the INSERT or UPDATE of row id (0 for a new
\* row) with this number is accepted only if no other row carries it
NumberFree(cs, id, number) ==
    \A j \in 1..Len(cs) : j # id => cs[j].contract_number # number

\* ContractClarification.objects.create(...) of _save_clarifications
NewClarification(id, entry) ==
    [contract |-> id,
     field_name |-> entry.field,
     user_answer |-> "",
     answered |-> FALSE,
     answered_at |-> "null"]

\* ai_question and context_snippet are NOT NULL columns; .get(key, '')
\* passes a JSON null through, and the INSERT of such a row fails
ClarificationInsertOk(entry) == entry.question # "null" /\ entry.context # "null"

RECURSIVE SaveClarifications(_, _, _, _)
\* the loop of _save_clarifications: a row that fails to insert is logged
\* and skipped
SaveClarifications(rows, id, entries, i) ==
    IF i > Len(entries) THEN rows
    ELSE SaveClarifications(
             IF ClarificationInsertOk(entries[i])
             THEN Append(rows, NewClarification(id, entries[i]))
             ELSE rows,
             id, entries, i + 1)

Unanswered(rows, id) ==
    {i \in 1..Len(rows) : rows[i].contract = id /\ ~rows[i].answered}

Answered(rows, id) ==
    {i \in 1..Len(rows) : rows[i].contract = id /\ rows[i].answered}

RowsOf(rows, id) == {i \in 1..Len(rows) : rows[i].contract = id}

-----------------------------------------------------------------------------
(* AIExtractor                                                             *)

\* _clean_string: None (JSON null) and '' give '', text is stripped
CleanString(v) == IF v = "null" \/ v = "" THEN "" ELSE Strip(v)

\* _parse_date: the first matching format, re-rendered as YYYY-MM-DD
AIDateFormats ==
    <<"%Y-%m-%d", "%m/%d/%Y", "%d/%m/%Y", "%Y-%m-%d", "%B %d, %Y", "%d %B %Y">>

AIParseDate(v) ==
    IF v = "" \/ v = "null" THEN ""
    ELSE StrfTime(FirstParse(Strip(v), AIDateFormats, 1))

RECURSIVE ValidateMilestones(_, _)
\* _validate_milestones: an entry is kept if it has an amount or a description
ValidateMilestones(ms, i) ==
    IF i > Len(ms) THEN <<>>
    ELSE LET v == [amount |-> ms[i].amount,
                   due_date |-> AIParseDate(ms[i].due_date),
                   description |-> CleanString(ms[i].description)]
         IN IF v.amount # None \/ v.description # ""
            THEN <<v>> \o ValidateMilestones(ms, i + 1)
            ELSE ValidateMilestones(ms, i + 1)

\* _validate_extracted_data followed by the metadata update of
\* extract_contract_with_ai: the dictionary the call returns
ValidatedData(resp) ==
    [client_name |-> CleanString(resp.data.client_name),
     total_value |-> resp.data.total_value,
     currency |-> CleanString(resp.data.currency),
     start_date |-> AIParseDate(resp.data.start_date),
     end_date |-> AIParseDate(resp.data.end_date),
     payment_milestones |-> ValidateMilestones(resp.payment_milestones, 1),
     clarifications_count |-> Len(resp.clarifications_needed),
     has_clarifications |-> Len(resp.clarifications_needed) > 0]

-----------------------------------------------------------------------------
(* ContractProcessor                                                       *)

ProcessorDateFormats == <<"%Y-%m-%d", "%m/%d/%Y", "%d/%m/%Y", "%B %d, %Y">>

\* _parse_date_from_string
ParseDateFromString(v) ==
    IF v = "" THEN None ELSE FirstParse(v, ProcessorDateFormats, 1)

RECURSIVE MapMilestones(_, _)
\* the milestone loop of _map_ai_data_to_models: amount and due date required
MapMilestones(ms, i) ==
    IF i > Len(ms) THEN <<>>
    ELSE LET m == [milestone_name |-> ms[i].description,
                   due_date |-> ParseDateFromString(ms[i].due_date),
                   amount |-> ms[i].amount,
                   status |-> "pending"]
         IN IF m.amount # None /\ m.due_date # None
            THEN <<m>> \o MapMilestones(ms, i + 1)
            ELSE MapMilestones(ms, i + 1)

\* contract_data of _map_ai_data_to_models
MapContractData(ai) ==
    LET start_date == ParseDateFromString(ai.start_date)
        end_date == ParseDateFromString(ai.end_date)
    IN [client_name |-> ai.client_name,
        total_value |-> ai.total_value,
        currency |-> ai.currency,
        start_date |-> start_date,
        end_date |-> IF end_date = None /\ start_date # None
                     THEN start_date + OneYear
                     ELSE end_date]

\* the status _update_contract_with_data decides on
FinalStatus(ai) ==
    IF ai.has_clarifications THEN "needs_clarification" ELSE "completed"

\* the in-memory contract of the run when contract.save() is reached: every
\* extracted field assigned, the number still the placeholder's
UpdatedContract(file, ai) ==
    LET d == MapContractData(ai)
    IN [status |-> FinalStatus(ai),
        contract_number |-> ContractNumberFor(file),
        client_name |-> d.client_name,
        total_value |-> d.total_value,
        currency |-> d.currency,
        start_date |-> d.start_date,
        end_date |-> d.end_date,
        notes |-> <<>>]

\* PaymentMilestone.is_overdue on the current date
IsOverdue(status, due_date) ==
    IF status = "paid" THEN FALSE ELSE today > due_date

\* the status recomputed from the dates at every save
SavedStatusRecomputed(status, due_date) ==
    IF status = "paid" THEN status
    ELSE IF today > due_date THEN "overdue" ELSE "pending"

\* the status PaymentMilestone.save stores
SavedStatus(status, due_date) ==
    IF IsOverdue(status, due_date) /\ status = "pending" THEN "overdue" ELSE status

\* PaymentMilestone.objects.create(**milestone_data): the INSERT fails when
\* the name does not fit its column
MilestoneInsertOk(m) == StrLen(m.milestone_name) <= MilestoneNameMax

RECURSIVE MilestoneLoop(_, _, _, _)
\* the milestone loop inside transaction.atomic().  acc = [rows, created,
\* errors, broken]; a failed INSERT marks the transaction for rollback
\* (Model.save_base), after which every further query of the block raises
\* and is caught by the same except clause
MilestoneLoop(acc, id, ms, i) ==
    IF i > Len(ms) THEN acc
    ELSE MilestoneLoop(
             IF ~acc.broken /\ MilestoneInsertOk(ms[i])
             THEN [acc EXCEPT !.rows = Append(@, [contract |-> id,
                                                  milestone_name |-> ms[i].milestone_name,
                                                  due_date |-> ms[i].due_date,
                                                  amount |-> ms[i].amount,
                                                  status |-> SavedStatus(ms[i].status,
                                                                         ms[i].due_date)]),
                              !.created = @ + 1]
             ELSE [acc EXCEPT !.errors = Append(@, [warning |-> "Failed to create milestone",
                                                    index |-> i]),
                              !.broken = TRUE],
             id, ms, i + 1)

\* the messages extract_contract_with_ai raises for the failures of the call
AIErrorMessage(kind) ==
    CASE kind = "auth" -> "Gemini API key is invalid"
      [] kind = "quota" -> "Gemini rate limit exceeded"
      [] kind = "timeout" -> "Gemini API request timed out"
      [] OTHER -> "AI extraction failed: AI returned invalid JSON"

\* no parser call made yet
NoParse == [call |-> "", raised |-> FALSE]

\* no batch run started yet
NoBatch == [started |-> FALSE]

\* no call of the model service made, no temporary file written, no table
\* handed to the recognizer yet
NotCalled == [called |-> FALSE]

\* what process_contract returned for an upload, with the placeholder row
\* the run created (0: none); an upload not yet served has NoResult
NoResult ==
    [returned |-> FALSE, success |-> FALSE, error |-> "", contract_id |-> 0,
     placeholder |-> 0, payment_milestones_created |-> 0, warnings |-> <<>>,
     has_clarifications |-> FALSE, clarifications_count |-> 0]

Failure(msg, placeholder) ==
    [NoResult EXCEPT !.returned = TRUE, !.error = msg, !.placeholder = placeholder]

\* _update_contract_with_data on the placeholder id of cs: the rows after the
\* atomic block and the dictionary it returns.  A failed INSERT leaves the
\* block marked for rollback, so when it ends contract.save() and the rows
\* inserted before are undone; the result is returned all the same
UpdateContractWithData(cs, ms, tm, id, file, ai) ==
    LET mem == UpdatedContract(file, ai)
        acc == MilestoneLoop([rows |-> ms, created |-> 0, errors |-> <<>>,
                              broken |-> FALSE],
                             id, MapMilestones(ai.payment_milestones, 1), 1)
    IN [contracts |-> IF acc.broken THEN cs ELSE [cs EXCEPT ![id] = mem],
        milestones |-> IF acc.broken THEN ms ELSE acc.rows,
        terms |-> IF acc.broken THEN tm ELSE tm \cup {id},
        payment_milestones_count |-> acc.created,
        warnings |-> acc.errors]

\* the placeholder row inserted before the text is looked at
PlaceholderRowsFirst(cs, file, text_ok) ==
    IF NumberFree(cs, 0, ContractNumberFor(file))
    THEN Append(cs, InitialContract(file))
    ELSE cs

\* steps 1 and 2 of process_contract, in the order of the code: the text is
\* extracted first, and only then is the placeholder row inserted; the rows
\* are unchanged when either step raises
PlaceholderRows(cs, file, text_ok) ==
    IF text_ok /\ NumberFree(cs, 0, ContractNumberFor(file))
    THEN Append(cs, InitialContract(file))
    ELSE cs

\* ContractProcessor.process_contract for upload r: the file, whether its
\* text can be extracted, and the response of the model service
ProcessContract(r, file, text_ok, resp) ==
    LET id == Len(contracts) + 1
        created == PlaceholderRows(contracts, file, text_ok)
        ai == ValidatedData(resp)
        rows == SaveClarifications(clarifications, id, resp.clarifications_needed, 1)
        upd == UpdateContractWithData(created, milestones, terms, id, file, ai)
    IN /\ ~runs[r].returned
       /\ \E i \in 1..Len(Uploads) :
             Uploads[i] = r /\ \A j \in 1..(i - 1) : runs[Uploads[j]].returned
       /\ Len(clarifications) + Len(resp.clarifications_needed) <= MaxClar
       /\ Len(milestones) + Len(resp.payment_milestones) <= MaxMilestones
       /\ IF ~text_ok
          THEN \* step 1, _extract_pdf_text, raises
               /\ runs' = [runs EXCEPT ![r] = Failure("Failed to extract PDF text", 0)]
               /\ contracts' = created
               /\ UNCHANGED <<clarifications, milestones, terms>>
          ELSE IF ~NumberFree(contracts, 0, ContractNumberFor(file))
          THEN \* step 2, _create_initial_contract, raises: the number is taken
               /\ runs' = [runs EXCEPT ![r] = Failure("duplicate contract_number", 0)]
               /\ contracts' = created
               /\ UNCHANGED <<clarifications, milestones, terms>>
          ELSE IF resp.kind # "ok"
          THEN \* step 3, extract_contract_with_ai, raises
               /\ runs' = [runs EXCEPT ![r] = Failure(AIErrorMessage(resp.kind), id)]
               /\ contracts' = created
               /\ UNCHANGED <<clarifications, milestones, terms>>
          ELSE \* steps 3 to 5 return
               /\ runs' = [runs EXCEPT ![r] =
                     [returned |-> TRUE, success |-> TRUE, error |-> "",
                      contract_id |-> id, placeholder |-> id,
                      payment_milestones_created |-> upd.payment_milestones_count,
                      warnings |-> upd.warnings,
                      has_clarifications |-> ai.has_clarifications,
                      clarifications_count |-> ai.clarifications_count]]
               /\ contracts' = upd.contracts
               /\ clarifications' = rows
               /\ milestones' = upd.milestones
               /\ terms' = upd.terms
       /\ UNCHANGED <<applyLog, today, parsed, extraction, temp, schedule>>

-----------------------------------------------------------------------------
(* Views and commands                                                      *)

\* ContractClarification.mark_as_answered
MarkAsAnswered(row, answer) ==
    [row EXCEPT !.user_answer = answer, !.answered = TRUE, !.answered_at = "now"]

\* the notes log stays within MaxNotes entries
NotesRoom(st) == Len(st.c.notes) <= MaxNotes

\* self.save() at the end of apply_clarifications raises when the number an
\* answer put into contract_number belongs to another contract
ApplySaveFails(cs, id, st) ==
    st.u # <<>> /\ ~NumberFree(cs, id, st.c.contract_number)

\* the status answer_clarification stores once the last answer is in
StatusAfterAnswer(status) == "completed"

\* views.answer_clarification for clarification k and the posted text raw
AnswerClarification(k, raw) ==
    LET answer == Strip(raw)
        id == clarifications[k].contract
        rows == [clarifications EXCEPT ![k] = MarkAsAnswered(@, answer)]
        st == ApplyClarifications(contracts[id], id, rows)
    IN /\ k \in 1..Len(clarifications)
       /\ IF answer = ""
          THEN UNCHANGED <<contracts, clarifications, applyLog>>
          ELSE /\ clarifications' = rows
               /\ applyLog' = IF applyLog.contract = id
                              THEN [contract |-> 0, returns |-> <<>>]
                              ELSE applyLog
               /\ IF Unanswered(rows, id) = {} /\ contracts[id].status = "needs_clarification"
                  THEN /\ NotesRoom(st)
                       /\ contracts' = IF ApplySaveFails(contracts, id, st)
                                       THEN contracts
                                       ELSE [contracts EXCEPT ![id] =
                                               [st.c EXCEPT !.status =
                                                   StatusAfterAnswer(st.c.status)]]
                  ELSE contracts' = contracts
       /\ UNCHANGED <<milestones, terms, runs, today, parsed, batch, extraction, temp, schedule>>

\* completed whatever the number of open questions
StatusAfterApplyAlways(status, unanswered) ==
    IF status = "needs_clarification" THEN "completed" ELSE status

\* the contract put back into processing while questions are open
StatusAfterApplyReopens(status, unanswered) ==
    IF unanswered = 0 /\ status = "needs_clarification" THEN "completed"
    ELSE "processing"

\* the status apply_contract_clarifications stores after the apply
StatusAfterApply(status, unanswered) ==
    IF unanswered = 0 /\ status = "needs_clarification" THEN "completed" ELSE status

\* views.apply_contract_clarifications for contract id
ApplyContractClarifications(id) ==
    LET st == ApplyClarifications(contracts[id], id, clarifications)
    IN /\ id \in 1..Len(contracts)
       /\ IF Answered(clarifications, id) = {}
          THEN UNCHANGED contracts
          ELSE /\ NotesRoom(st)
               /\ contracts' = IF ApplySaveFails(contracts, id, st)
                               THEN contracts
                               ELSE [contracts EXCEPT ![id] =
                                       [st.c EXCEPT !.status =
                                          StatusAfterApply(st.c.status,
                                             Cardinality(Unanswered(clarifications, id)))]]
       /\ applyLog' = IF applyLog.contract = id
                      THEN [contract |-> 0, returns |-> <<>>]
                      ELSE applyLog
       /\ UNCHANGED <<clarifications, milestones, terms, runs, today, parsed, batch, extraction, temp, schedule>>

\* contract.apply_clarifications() called directly on contract id, by a
\* caller that keeps what each call returned and the fields it then reads;
\* applyLog holds these for consecutive calls on one contract
ApplyClarificationsCall(id) ==
    LET st == ApplyClarifications(contracts[id], id, clarifications)
    IN /\ id \in 1..Len(contracts)
       /\ NotesRoom(st)
       /\ applyLog.contract = id => Len(applyLog.returns) < MaxLog
       /\ ~ApplySaveFails(contracts, id, st)
       /\ contracts' = IF st.u = <<>> THEN contracts
                       ELSE [contracts EXCEPT ![id] = st.c]
       /\ applyLog' = [contract |-> id,
                       returns |-> Append(IF applyLog.contract = id
                                          THEN applyLog.returns ELSE <<>>,
                                          [updates_made |-> st.u, fields |-> st.c])]
       /\ UNCHANGED <<clarifications, milestones, terms, runs, today, parsed, batch, extraction, temp, schedule>>

\* the statuses views.update_contract_status accepts
ValidStatuses == {"needs_clarification", "processing", "completed"}

\* views.update_contract_status
UpdateContractStatus(id, new_status) ==
    /\ id \in 1..Len(contracts)
    /\ contracts' = IF new_status \in ValidStatuses
                    THEN [contracts EXCEPT ![id].status = new_status]
                    ELSE contracts
    /\ applyLog' = IF applyLog.contract = id
                   THEN [contract |-> 0, returns |-> <<>>]
                   ELSE applyLog
    /\ UNCHANGED <<clarifications, milestones, terms, runs, today, parsed, batch, extraction, temp, schedule>>

\* the loop body of the fix_contract_status command
FixedStatus(c) ==
    IF c.status # "processing" THEN c.status
    ELSE IF (c.total_value # None /\ c.total_value # 0) \/ c.client_name # ""
         THEN "completed"
         ELSE "failed"

\* manage.py fix_contract_status
FixContractStatus ==
    /\ \E id \in 1..Len(contracts) : contracts[id].status = "processing"
    /\ contracts' = [id \in 1..Len(contracts) |->
                        [contracts[id] EXCEPT !.status = FixedStatus(contracts[id])]]
    /\ applyLog' = [contract |-> 0, returns |-> <<>>]
    /\ UNCHANGED <<clarifications, milestones, terms, runs, today, parsed, batch, extraction, temp, schedule>>

-----------------------------------------------------------------------------
(* Inputs                                                                  *)

\* extracted_data sections the model service returns
AIDataSet ==
    {[client_name |-> " Acme ", total_value |-> 1000, currency |-> "USD",
      start_date |-> "null", end_date |-> "null"]}

\* clarifications_needed entries; a null context is one the row cannot hold
ClarEntries ==
    {[field |-> "start_date", question |-> "q", context |-> "text"],
     [field |-> "start_date", question |-> "q", context |-> "null"]}

\* payment_milestones entries; x256 is a description of 256 characters
MilestoneEntries ==
    {[amount |-> 500, due_date |-> "2024-12-01", description |-> "deposit"],
     [amount |-> 500, due_date |-> "2024-12-01", description |-> "x256"]}

AIFailures == {"auth", "quota", "timeout", "bad_json"}

\* the model service is not called, or its call fails
NoResponse ==
    [kind |-> "none",
     data |-> [client_name |-> "null", total_value |-> None, currency |-> "null",
               start_date |-> "null", end_date |-> "null"],
     clarifications_needed |-> <<>>, payment_milestones |-> <<>>]

AIResponses ==
    {[NoResponse EXCEPT !.kind = k] : k \in AIFailures}
    \cup
    [kind : {"ok"}, data : AIDataSet,
     clarifications_needed : SeqsUpTo(ClarEntries, MaxClar),
     payment_milestones : SeqsUpTo(MilestoneEntries, MaxMilestones)]

\* texts a user posts as the answer to a clarification of the given field
AnswersFor(field_name) ==
    CASE Lower(field_name) = "start_date" -> {"2024-12-01", "tbd"}
      [] Lower(field_name) = "end_date" -> {"2025-06-01", "ongoing", "Perpetual"}
      [] Lower(field_name) = "client_name" -> {"Acme"}
      [] Lower(field_name) = "total_value" -> {"50,000", "between 10 and 75000"}
      [] Lower(field_name) = "currency" -> {"Canadian Dollars"}
      [] Lower(field_name) = "contract_number" -> {"C-9", "T-a"}
      [] OTHER -> {"net 30"}

EmptyAnswers == {"", "   "}

\* the answers posted while uploads are being served
PipelineAnswers == {"2024-12-01"}

StatusInputs == ValidStatuses \cup {"error"}

-----------------------------------------------------------------------------
(* The pipeline with its clarification cycle                               *)

Init ==
    /\ contracts = <<>>
    /\ clarifications = <<>>
    /\ milestones = <<>>
    /\ terms = {}
    /\ runs = [r \in Runs |-> NoResult]
    /\ applyLog = [contract |-> 0, returns |-> <<>>]
    /\ today = Day("2024-12-01")
    /\ parsed = NoParse
    /\ batch = NoBatch
    /\ extraction = NotCalled
    /\ temp = NotCalled
    /\ schedule = NotCalled

Next ==
    \/ \E r \in Runs, file \in Files :
          ProcessContract(r, file, FALSE, NoResponse) /\ UNCHANGED batch
    \/ \E r \in Runs, file \in Files, resp \in AIResponses :
          ProcessContract(r, file, TRUE, resp) /\ UNCHANGED batch
    \/ \E k \in 1..Len(clarifications) :
          \E raw \in PipelineAnswers \cup EmptyAnswers : AnswerClarification(k, raw)
    \/ \E id \in 1..Len(contracts) : ApplyContractClarifications(id)
    \/ \E id \in 1..Len(contracts), s \in StatusInputs : UpdateContractStatus(id, s)
    \/ FixContractStatus

Spec == Init /\ [][Next]_vars

-----------------------------------------------------------------------------
(* The clarification cycle on one processed contract                       *)

\* field names the model service puts into clarification entries
FieldNames ==
    <<"start_date", "end_date", "client_name", "total_value", "payment_terms",
      "currency", "contract_number", "scope">>

\* the lists of at most n entries over FieldNames, one list per multiset of
\* names: entries of different fields are applied independently of each other
FieldLists(n) ==
    {[i \in 1..Len(ix) |-> FieldNames[ix[i]]] :
        ix \in {js \in SeqsUpTo(1..Len(FieldNames), n) :
                   \A i \in 1..(Len(js) - 1) : js[i] <= js[i + 1]}}

\* an earlier upload of a.pdf, processed without clarifications
OtherContract ==
    [InitialContract("a.pdf") EXCEPT !.status = "completed", !.client_name = "Acme",
                                     !.total_value = 1000]

\* b.pdf as process_contract leaves it when clarifications are needed: with
\* no dates, or with a start date and the end date defaulted from it
ProcessedContracts ==
    {[InitialContract("b.pdf") EXCEPT !.status = "needs_clarification",
                                      !.client_name = "Acme",
                                      !.total_value = 1000,
                                      !.start_date = d, !.end_date = e] :
        <<d, e>> \in {<<None, None>>,
                      <<Day("2024-12-01"), Day("2024-12-01") + OneYear>>}}

InitApply ==
    /\ \E c \in ProcessedContracts : contracts = <<OtherContract, c>>
    /\ \E fs \in FieldLists(MaxClar) :
          /\ Len(fs) >= 1
          /\ clarifications = [i \in 1..Len(fs) |->
                                 NewClarification(2, [field |-> fs[i]])]
    /\ milestones = <<>>
    /\ terms = {2}
    /\ runs = [r \in Runs |-> NoResult]
    /\ applyLog = [contract |-> 0, returns |-> <<>>]
    /\ today = Day("2024-12-01")
    /\ parsed = NoParse
    /\ batch = NoBatch
    /\ extraction = NotCalled
    /\ temp = NotCalled
    /\ schedule = NotCalled

NextApply ==
    \/ \E k \in 1..Len(clarifications) :
          \E raw \in AnswersFor(clarifications[k].field_name) \cup EmptyAnswers :
             AnswerClarification(k, raw)
    \/ \E id \in 1..Len(contracts) : ApplyContractClarifications(id)
    \/ \E id \in 1..Len(contracts) : ApplyClarificationsCall(id)

SpecApply == InitApply /\ [][NextApply]_vars

-----------------------------------------------------------------------------
(* Payment milestones: the endpoints, the admin form and the calendar      *)

\* float(value) on the amounts that are posted; None for ValueError
ParseFloat(s) ==
    CASE s = "250" -> 250
      [] s = "0" -> 0
      [] s = "-5" -> 0 - 5
      [] OTHER -> None

\* the in-memory milestone update_milestone has built when it reaches
\* milestone.save(), and whether it gets there: req = [field, value,
\* due_date, amount], "" for a key the request does not carry
UpdateMilestoneRow(m, req) ==
    LET generic == req.field # "" /\ req.value # ""
        d1 == StrpTime(req.value, "%Y-%m-%d")
        d2 == StrpTime(req.due_date, "%Y-%m-%d")
        m1 == IF ~generic THEN m
              ELSE CASE req.field = "due_date" -> [m EXCEPT !.due_date = d1]
                     [] req.field = "amount" -> [m EXCEPT !.amount = ParseFloat(req.value)]
                     [] req.field = "milestone_name" ->
                           [m EXCEPT !.milestone_name = req.value]
                     [] OTHER -> m
        m2 == IF req.due_date # "" THEN [m1 EXCEPT !.due_date = d2] ELSE m1
        m3 == IF req.amount # "" THEN [m2 EXCEPT !.amount = ParseFloat(req.amount)]
              ELSE m2
        ok == /\ generic =>
                   /\ req.field \in {"invoice_date", "due_date", "amount",
                                     "milestone_name", "payment_reference"}
                   /\ req.field \in {"invoice_date", "due_date"} => d1 # None
                   /\ req.field = "amount" => ParseFloat(req.value) # None
              /\ req.due_date # "" => d2 # None
              /\ req.amount # "" => ParseFloat(req.amount) # None
              /\ StrLen(m3.milestone_name) <= MilestoneNameMax
    IN [ok |-> ok,
        row |-> IF ok THEN [m3 EXCEPT !.status = SavedStatus(m3.status, m3.due_date)]
                ELSE m]

\* views.update_milestone for milestone i
UpdateMilestone(i, req) ==
    /\ i \in 1..Len(milestones)
    /\ milestones' = [milestones EXCEPT ![i] = UpdateMilestoneRow(@, req).row]
    /\ UNCHANGED <<contracts, clarifications, terms, runs, applyLog, today, parsed, batch, extraction, temp, schedule>>

\* the row add_milestone creates from req = [milestone_name, due_date,
\* amount], and whether the create succeeds: a missing due date makes
\* is_overdue raise TypeError inside save()
AddMilestoneRow(id, req) ==
    LET due == IF req.due_date = "" THEN None
               ELSE StrpTime(req.due_date, "%Y-%m-%d")
        amount == IF req.amount = "" THEN 0 ELSE ParseFloat(req.amount)
    IN [ok |-> /\ due # None
               /\ amount # None
               /\ req.milestone_name # "null"
               /\ StrLen(req.milestone_name) <= MilestoneNameMax,
        row |-> [contract |-> id,
                 milestone_name |-> req.milestone_name,
                 due_date |-> due,
                 amount |-> amount,
                 status |-> SavedStatus("pending", due)]]

\* views.add_milestone for contract id
AddMilestone(id, req) ==
    /\ id \in 1..Len(contracts)
    /\ Len(milestones) < MaxMilestones
    /\ milestones' = IF AddMilestoneRow(id, req).ok
                     THEN Append(milestones, AddMilestoneRow(id, req).row)
                     ELSE milestones
    /\ UNCHANGED <<contracts, clarifications, terms, runs, applyLog, today, parsed, batch, extraction, temp, schedule>>

\* the change form of PaymentMilestoneAdmin with a new status: the form
\* validates the amount, then the row is saved
AdminSetMilestoneStatus(i, status) ==
    /\ i \in 1..Len(milestones)
    /\ milestones[i].amount > 0
    /\ milestones' = [milestones EXCEPT ![i].status =
                         SavedStatus(status, milestones[i].due_date)]
    /\ UNCHANGED <<contracts, clarifications, terms, runs, applyLog, today, parsed, batch, extraction, temp, schedule>>

\* the dates on which requests are served
Calendar == <<"2024-12-01", "2025-01-15", "2025-06-01", "2025-07-01">>

\* timezone.now().date() moves on
Tick ==
    /\ \E i \in 1..(Len(Calendar) - 1) :
          today = Day(Calendar[i]) /\ today' = Day(Calendar[i + 1])
    /\ UNCHANGED <<contracts, clarifications, milestones, terms, runs, applyLog,
                   parsed, batch, extraction, temp, schedule>>

MilestoneStatuses == {"pending", "paid", "overdue"}

\* bodies of update_milestone requests
UpdateRequests ==
    {[field |-> f, value |-> v, due_date |-> "", amount |-> ""] :
        <<f, v>> \in {<<"due_date", "2025-06-01">>, <<"due_date", "2024-12-01">>,
                      <<"due_date", "soon">>, <<"amount", "250">>,
                      <<"amount", "0">>, <<"amount", "-5">>, <<"amount", "abc">>,
                      <<"milestone_name", "final">>, <<"colour", "red">>}}
    \cup {[field |-> "", value |-> "", due_date |-> "2025-06-01", amount |-> "250"]}

\* bodies of add_milestone requests
AddRequests ==
    {[milestone_name |-> n, due_date |-> d, amount |-> a] :
        n \in {"deposit", "x256"},
        d \in {"2024-12-01", "2025-06-01", "", "soon"},
        a \in {"250", "0", "-5", "", "abc"}}

InitMilestone ==
    /\ contracts = <<OtherContract>>
    /\ clarifications = <<>>
    /\ milestones = <<>>
    /\ terms = {1}
    /\ runs = [r \in Runs |-> NoResult]
    /\ applyLog = [contract |-> 0, returns |-> <<>>]
    /\ today = Day(Calendar[1])
    /\ parsed = NoParse
    /\ batch = NoBatch
    /\ extraction = NotCalled
    /\ temp = NotCalled
    /\ schedule = NotCalled

NextMilestone ==
    \/ \E id \in 1..Len(contracts), req \in AddRequests : AddMilestone(id, req)
    \/ \E i \in 1..Len(milestones), req \in UpdateRequests : UpdateMilestone(i, req)
    \/ \E i \in 1..Len(milestones), status \in MilestoneStatuses :
          AdminSetMilestoneStatus(i, status)
    \/ Tick

SpecMilestone == InitMilestone /\ [][NextMilestone]_vars

-----------------------------------------------------------------------------
(* Contract dates: extraction, answers and the date-update endpoint        *)

\* views.update_contract_dates for contract id with the posted start_date
\* and end_date ("" for a missing or empty value)
UpdateContractDates(id, start_date_str, end_date_str) ==
    LET start_date == IF start_date_str # ""
                      THEN StrpTime(start_date_str, "%Y-%m-%d") ELSE None
        end_date == IF end_date_str # ""
                    THEN StrpTime(end_date_str, "%Y-%m-%d") ELSE None
        invalid == \/ start_date_str # "" /\ start_date = None
                   \/ end_date_str # "" /\ end_date = None
        rejected == start_date # None /\ end_date # None /\ start_date > end_date
    IN /\ id \in 1..Len(contracts)
       /\ contracts' = IF invalid \/ rejected THEN contracts
                       ELSE [contracts EXCEPT ![id].start_date = start_date,
                                              ![id].end_date = end_date]
       /\ applyLog' = IF applyLog.contract = id
                      THEN [contract |-> 0, returns |-> <<>>]
                      ELSE applyLog
       /\ UNCHANGED <<clarifications, milestones, terms, runs, today, parsed, batch, extraction, temp, schedule>>

\* the date texts the model service returns
AIDateTexts == {"null", "2024-12-01", "12/01/2024", "2025-06-01", "soon"}

\* responses of the model service with every combination of dates, with or
\* without a clarification entry and a payment milestone
DatedResponses ==
    {[kind |-> "ok",
      data |-> [client_name |-> "Acme", total_value |-> 1000, currency |-> "USD",
                start_date |-> sd, end_date |-> ed],
      clarifications_needed |-> cl,
      payment_milestones |-> ms] :
        sd \in AIDateTexts, ed \in AIDateTexts,
        cl \in {<<>>} \cup {<<[field |-> f, question |-> "q", context |-> "text"]>> :
                              f \in {"start_date", "end_date"}},
        ms \in {<<>>} \cup {<<m>> : m \in MilestoneEntries}}

\* the dates users post, as answers and to the date-update endpoint; b.pdf
\* is uploaded, and uploaded again
DateInputs == {"2024-12-01", "2025-06-01", "soon"}

NextDates ==
    \/ \E r \in Runs, resp \in DatedResponses :
          ProcessContract(r, "b.pdf", TRUE, resp) /\ UNCHANGED batch
    \/ \E k \in 1..Len(clarifications), raw \in DateInputs \cup EmptyAnswers :
          AnswerClarification(k, raw)
    \/ \E id \in 1..Len(contracts), sd \in DateInputs \cup {""},
          ed \in DateInputs \cup {""} : UpdateContractDates(id, sd, ed)

SpecDates == Init /\ [][NextDates]_vars

-----------------------------------------------------------------------------
(* Contract status: every operation that stores one                        *)

\* views.update_client_name: the posted value is stored as it is
UpdateClientName(id, value) ==
    /\ id \in 1..Len(contracts)
    /\ contracts' = [contracts EXCEPT ![id].client_name = value]
    /\ applyLog' = IF applyLog.contract = id
                   THEN [contract |-> 0, returns |-> <<>>]
                   ELSE applyLog
    /\ UNCHANGED <<clarifications, milestones, terms, runs, today, parsed, batch,
                   extraction, temp, schedule>>

\* responses with and without a client name and a total value
NamedResponses ==
    {[NoResponse EXCEPT !.kind = k] : k \in AIFailures}
    \cup
    {[kind |-> "ok",
      data |-> [client_name |-> cn, total_value |-> tv, currency |-> "USD",
                start_date |-> "null", end_date |-> "null"],
      clarifications_needed |-> cl,
      payment_milestones |-> <<>>] :
        cn \in {"null", "Acme"}, tv \in {None, 1000},
        cl \in SeqsUpTo({[field |-> "start_date", question |-> "q",
                          context |-> "text"]}, 1)}

NextStatus ==
    \/ \E r \in Runs, file \in Files, text_ok \in BOOLEAN, resp \in NamedResponses :
          ProcessContract(r, file, text_ok, resp) /\ UNCHANGED batch
    \/ \E k \in 1..Len(clarifications) :
          \E raw \in PipelineAnswers : AnswerClarification(k, raw)
    \/ \E id \in 1..Len(contracts) : ApplyContractClarifications(id)
    \/ \E id \in 1..Len(contracts), s \in StatusInputs : UpdateContractStatus(id, s)
    \/ \E id \in 1..Len(contracts), value \in {"", "Acme"} : UpdateClientName(id, value)
    \/ FixContractStatus

SpecStatus == Init /\ [][NextStatus]_vars

-----------------------------------------------------------------------------
(* PDFParser                                                               *)

MaxPages == 2

\* what a page gives to pdfplumber: no text, white space, or text
PlumberPages == {"", " ", "payment due"}

\* what a page gives to PyPDF2; "!" is a page whose extract_text raises
PyPdfPages == {"", "payment due", "!"}

\* the library raises for the whole document
Raises == <<"raises">>

\* the files handed to the parser: whether the path exists, the suffix of
\* its name, whether it exceeds max_file_size, and what the two libraries
\* do with it (Raises, or what each page gives)
Docs ==
    [exists : BOOLEAN, suffix : {".pdf", ".PDF", ".txt"}, large : BOOLEAN,
     plumber : {Raises} \cup SeqsUpTo(PlumberPages, MaxPages),
     pypdf2 : {Raises} \cup SeqsUpTo(PyPdfPages, MaxPages)]

RECURSIVE PageTexts(_, _)
\* the page texts a loop over pages keeps: if page_text
PageTexts(pages, i) ==
    IF i > Len(pages) THEN <<>>
    ELSE IF pages[i] \in {"", "!"} THEN PageTexts(pages, i + 1)
         ELSE <<pages[i]>> \o PageTexts(pages, i + 1)

RECURSIVE PageErrors(_, _)
\* the errors recorded for pages whose extract_text raises
PageErrors(pages, i) ==
    IF i > Len(pages) THEN <<>>
    ELSE IF pages[i] = "!" THEN <<"Page extraction failed">> \o PageErrors(pages, i + 1)
         ELSE PageErrors(pages, i + 1)

\* full_text.strip() is empty: '\n\n'.join of the kept page texts
NoText(texts) == \A i \in 1..Len(texts) : texts[i] = " "

\* payment keywords found in the text
KeywordCount(texts) ==
    IF \E i \in 1..Len(texts) : texts[i] = "payment due" THEN 1 ELSE 0

\* _calculate_confidence_score for texts below 2000 characters, no tables
ConfidenceScore(texts, pages, errors) ==
    LET score == (IF NoText(texts) THEN 0 ELSE 30)
                 + (IF pages > 1 THEN 10 ELSE 0)
                 - Len(errors) * 5
                 + (IF KeywordCount(texts) * 2 < 20 THEN KeywordCount(texts) * 2 ELSE 20)
    IN IF score < 0 THEN 0 ELSE IF score > 100 THEN 100 ELSE score

\* PDFParser.extract_text_from_pdf: raised with its message, or the result
ExtractTextFromPdf(doc) ==
    LET first == IF doc.plumber = Raises THEN <<>> ELSE PageTexts(doc.plumber, 1)
        errors1 == IF doc.plumber = Raises THEN <<"pdfplumber failed">> ELSE <<>>
        fallback == NoText(first)
        second == IF fallback /\ doc.pypdf2 # Raises
                  THEN PageTexts(doc.pypdf2, 1) ELSE <<>>
        errors2 == IF fallback /\ doc.pypdf2 # Raises
                   THEN errors1 \o PageErrors(doc.pypdf2, 1) ELSE errors1
        full_text == IF fallback THEN second ELSE first
        pages == Len(first) + Len(second)
        failed == [raised |-> TRUE, full_text |-> <<>>, errors |-> <<>>,
                   confidence_score |-> 0, error |-> ""]
    IN IF ~doc.exists THEN [failed EXCEPT !.error = "PDF file not found"]
       ELSE IF Lower(doc.suffix) # ".pdf" THEN [failed EXCEPT !.error = "File is not a PDF"]
       ELSE IF doc.large THEN [failed EXCEPT !.error = "File too large"]
       ELSE IF fallback /\ doc.pypdf2 = Raises
       THEN [failed EXCEPT !.error = "Failed to extract text from PDF"]
       ELSE [raised |-> FALSE, full_text |-> full_text, errors |-> errors2,
             confidence_score |-> ConfidenceScore(full_text, pages, errors2),
             error |-> ""]

\* the dictionary PDFParser.extract_payment_information returns; its except
\* clause turns everything extract_text_from_pdf raises into a result
PaymentInformation(doc) ==
    LET r == ExtractTextFromPdf(doc)
    IN IF r.raised
       THEN [extraction_successful |-> FALSE, confidence_score |-> 0,
             full_text |-> <<>>, errors |-> <<r.error>>]
       ELSE [extraction_successful |-> TRUE, confidence_score |-> r.confidence_score,
             full_text |-> r.full_text, errors |-> r.errors]

\* a caller calls PDFParser.extract_payment_information on the file at hand
ExtractPaymentInformation ==
    /\ parsed' = [call |-> "extract_payment_information", raised |-> FALSE,
                  doc |-> parsed.doc, result |-> PaymentInformation(parsed.doc)]
    /\ UNCHANGED <<contracts, clarifications, milestones, terms, runs, applyLog,
                   today, batch, extraction, temp, schedule>>

\* the upload as _save_temp_file writes it: an existing file named *.pdf
TempFile(doc) == [doc EXCEPT !.exists = TRUE, !.suffix = ".pdf"]

\* ContractProcessor._extract_pdf_text on the upload: it raises, or returns
\* the text that process_contract hands to the model service
ExtractPdfText ==
    LET r == PaymentInformation(TempFile(parsed.doc))
    IN /\ parsed' = [call |-> "_extract_pdf_text",
                     raised |-> ~r.extraction_successful,
                     doc |-> TempFile(parsed.doc), result |-> r]
       /\ UNCHANGED <<contracts, clarifications, milestones, terms, runs, applyLog,
                      today, batch, extraction, temp, schedule>>

\* the parser starts with any one of the files
InitParser ==
    /\ contracts = <<>>
    /\ clarifications = <<>>
    /\ milestones = <<>>
    /\ terms = {}
    /\ runs = [r \in Runs |-> NoResult]
    /\ applyLog = [contract |-> 0, returns |-> <<>>]
    /\ today = Day("2024-12-01")
    /\ \E doc \in Docs : parsed = [call |-> "", raised |-> FALSE, doc |-> doc]
    /\ batch = NoBatch
    /\ extraction = NotCalled
    /\ temp = NotCalled
    /\ schedule = NotCalled

NextParser ==
    \/ ExtractPaymentInformation
    \/ ExtractPdfText

SpecParser == InitParser /\ [][NextParser]_vars

-----------------------------------------------------------------------------
(* The temporary file of the extraction step                               *)

MaxChunks == 2

\* the uploads: the chunks pdf_file.chunks() yields, each of them bytes,
\* nothing, or an error while reading or writing ("!")
UploadedFiles == SeqsUpTo({"data", "", "!"}, MaxChunks)

\* the documents the temporary file can hold
TempDocs ==
    {d \in Docs : /\ d.exists /\ d.suffix = ".pdf" /\ ~d.large
                  /\ d.plumber \in {Raises, <<>>, <<"payment due">>}
                  /\ d.pypdf2 \in {Raises, <<>>}}

\* the except clause of _save_temp_file: os.close(temp_fd) comes first and
\* raises for a descriptor that is closed already, the bare except around it
\* swallows that, and os.unlink is reached only when os.close returned
UnlinkedOnError(fd_open) == fd_open

\* _save_temp_file: whether it raises, and whether the file mkstemp created
\* still exists when it returns or raises.  The with block has closed the
\* descriptor on every way out of it
SaveTempFile(chunks) ==
    LET fd_open == FALSE
        \* the loop over the chunks raises, or os.path.getsize is 0 after it
        failed == \/ \E i \in 1..Len(chunks) : chunks[i] = "!"
                  \/ \A i \in 1..Len(chunks) : chunks[i] = ""
    IN [raised |-> failed,
        exists |-> IF failed THEN ~UnlinkedOnError(fd_open) ELSE TRUE]

\* _extract_pdf_text with its finally clause: temp_path is still None when
\* _save_temp_file raised, so _cleanup_temp_file runs only after a save
\* that returned
TempFileOutcome(chunks, doc) ==
    LET saved == SaveTempFile(chunks)
        info == PaymentInformation(doc)
    IN IF saved.raised
       THEN [raised |-> TRUE, exists |-> saved.exists]
       ELSE [raised |-> ~info.extraction_successful, exists |-> FALSE]

\* process_contract reaches step 1 for the upload at hand
ExtractUploadedText ==
    /\ ~temp.called
    /\ temp' = [called |-> TRUE, chunks |-> temp.chunks, doc |-> temp.doc,
                outcome |-> TempFileOutcome(temp.chunks, temp.doc)]
    /\ UNCHANGED <<contracts, clarifications, milestones, terms, runs, applyLog,
                   today, parsed, batch, extraction, schedule>>

InitTemp ==
    /\ contracts = <<>>
    /\ clarifications = <<>>
    /\ milestones = <<>>
    /\ terms = {}
    /\ runs = [r \in Runs |-> NoResult]
    /\ applyLog = [contract |-> 0, returns |-> <<>>]
    /\ today = Day("2024-12-01")
    /\ parsed = NoParse
    /\ batch = NoBatch
    /\ extraction = NotCalled
    /\ \E chunks \in UploadedFiles, doc \in TempDocs :
          temp = [called |-> FALSE, chunks |-> chunks, doc |-> doc]
    /\ schedule = NotCalled

NextTemp == ExtractUploadedText

SpecTemp == InitTemp /\ [][NextTemp]_vars

-----------------------------------------------------------------------------
(* PatternExtractor: payment schedules in tables                           *)

MaxCols == 3
MaxRows == 2

\* cells of a header row
HeaderCells == {"Amount", "Due Date", "Milestone", "Notes"}

\* the keywords found in str(cell).lower()
CellKeywords(cell) ==
    CASE cell = "Amount" -> {"amount"}
      [] cell = "Due Date" -> {"due", "date"}
      [] cell = "Milestone" -> {"milestone"}
      [] OTHER -> {}

\* the tables of the parser: data[0] is the header, and each data row is
\* known by the number of cells it has
Tables ==
    [header : SeqsUpTo(HeaderCells, MaxCols) \ {<<>>},
     rows : SeqsUpTo(0..MaxCols, MaxRows)]

\* _is_payment_schedule_table: at least two rows, and at least two of the
\* payment keywords in the header
IsPaymentScheduleTable(table) ==
    /\ Len(table.rows) + 1 >= 2
    /\ Cardinality(UNION {CellKeywords(table.header[i]) : i \in 1..Len(table.header)}
                   \cap {"payment", "invoice", "amount", "due", "date", "milestone",
                         "phase", "deliverable", "installment", "schedule",
                         "billing"}) >= 2

RECURSIVE FindColumnIndex(_, _, _)
\* _find_column_index: the index, counted from 0, of the first cell that
\* holds one of the keywords; None when there is none
FindColumnIndex(header, keywords, idx) ==
    IF idx >= Len(header) THEN None
    ELSE IF CellKeywords(header[idx + 1]) \cap keywords # {} THEN idx
         ELSE FindColumnIndex(header, keywords, idx + 1)

\* max(filter(lambda x: x is not None, [...]), default=0)
MaxColumn(cols) ==
    IF \A i \in 1..Len(cols) : cols[i] = None THEN 0
    ELSE SetMax({cols[i] : i \in 1..Len(cols)})

\* the test a data row has to pass to get an entry
LongEnough(len, threshold) == len > threshold

RECURSIVE ScheduleEntries(_, _, _, _, _)
\* the loop of _extract_schedule_from_table over the data rows: an entry
\* records the number of the row and the keys it carries
ScheduleEntries(rows, amount_col, date_col, description_col, row_idx) ==
    IF row_idx > Len(rows) THEN <<>>
    ELSE LET len == rows[row_idx]
             rest == ScheduleEntries(rows, amount_col, date_col, description_col,
                                     row_idx + 1)
         IN IF LongEnough(len, MaxColumn(<<amount_col, date_col, description_col>>))
            THEN <<[row_number |-> row_idx,
                    amount |-> amount_col # None /\ amount_col < len,
                    due_date |-> date_col # None /\ date_col < len,
                    description |-> description_col # None /\ description_col < len]>>
                 \o rest
            ELSE rest

\* _extract_schedule_from_table
ExtractScheduleFromTable(table) ==
    ScheduleEntries(table.rows,
                    FindColumnIndex(table.header, {"amount", "payment", "fee", "total"}, 0),
                    FindColumnIndex(table.header, {"date", "due", "schedule"}, 0),
                    FindColumnIndex(table.header,
                                    {"description", "milestone", "phase", "deliverable"}, 0),
                    1)

\* extract_payment_schedule_from_tables for the table at hand
ExtractPaymentSchedule ==
    /\ ~schedule.called
    /\ schedule' = [called |-> TRUE, table |-> schedule.table,
                    classified |-> IsPaymentScheduleTable(schedule.table),
                    entries |-> IF IsPaymentScheduleTable(schedule.table)
                                THEN ExtractScheduleFromTable(schedule.table)
                                ELSE <<>>]
    /\ UNCHANGED <<contracts, clarifications, milestones, terms, runs, applyLog,
                   today, parsed, batch, extraction, temp>>

InitSchedule ==
    /\ contracts = <<>>
    /\ clarifications = <<>>
    /\ milestones = <<>>
    /\ terms = {}
    /\ runs = [r \in Runs |-> NoResult]
    /\ applyLog = [contract |-> 0, returns |-> <<>>]
    /\ today = Day("2024-12-01")
    /\ parsed = NoParse
    /\ batch = NoBatch
    /\ extraction = NotCalled
    /\ temp = NotCalled
    /\ \E table \in Tables : schedule = [called |-> FALSE, table |-> table]

NextSchedule == ExtractPaymentSchedule

SpecSchedule == InitSchedule /\ [][NextSchedule]_vars

-----------------------------------------------------------------------------
(* Batch processing                                                        *)

\* the confidence _validate_extracted_data gives every extraction
AIConfidence == 95

\* paths given to a batch; open() fails for "gone.pdf"
BatchPaths == Files \cup {"gone.pdf"}
Readable(path) == path \in Files

\* batch_results as process_batch_contracts initialises it
NewBatch(file_paths) ==
    [started |-> TRUE, done |-> FALSE, file_paths |-> file_paths, next |-> 1,
     total_files |-> Len(file_paths), processed_files |-> 0,
     successful_extractions |-> 0, failed_extractions |-> 0,
     high_confidence |-> 0, medium_confidence |-> 0, low_confidence |-> 0,
     contracts |-> <<>>, errors |-> <<>>]

\* what _process_single_file_batch returns for a result of process_contract
SingleFileResult(file_path, result) ==
    IF result.success
    THEN [success |-> TRUE, confidence_score |-> AIConfidence,
          error |-> "", file_path |-> file_path]
    ELSE [success |-> FALSE, confidence_score |-> 0,
          error |-> result.error, file_path |-> file_path]

\* what _process_single_file_batch returns when the file cannot be read
UnreadableResult(file_path) ==
    [success |-> FALSE, confidence_score |-> 0,
     error |-> "File processing error", file_path |-> file_path]

\* a loop body that records only the results that succeeded
AccumulateSuccessOnly(b, result) ==
    IF result.success
    THEN [b EXCEPT !.next = @ + 1, !.processed_files = @ + 1,
                   !.successful_extractions = @ + 1,
                   !.high_confidence = @ + 1,
                   !.contracts = Append(@, result)]
    ELSE [b EXCEPT !.next = @ + 1, !.processed_files = @ + 1]

\* the body of the loop of process_batch_contracts for one result
Accumulate(b, result) ==
    IF result.success
    THEN [b EXCEPT !.next = @ + 1, !.processed_files = @ + 1,
                   !.successful_extractions = @ + 1,
                   !.high_confidence =
                       IF result.confidence_score >= 85 THEN @ + 1 ELSE @,
                   !.medium_confidence =
                       IF result.confidence_score < 85 /\ result.confidence_score >= 60
                       THEN @ + 1 ELSE @,
                   !.low_confidence =
                       IF result.confidence_score < 60 THEN @ + 1 ELSE @,
                   !.contracts = Append(@, result)]
    ELSE [b EXCEPT !.next = @ + 1, !.processed_files = @ + 1,
                   !.failed_extractions = @ + 1,
                   !.errors = Append(@, [file_path |-> result.file_path,
                                         error |-> result.error]),
                   !.contracts = Append(@, result)]

\* process_batch_contracts is called with a list of paths
BatchStart(file_paths) ==
    /\ ~batch.started
    /\ batch' = NewBatch(file_paths)
    /\ UNCHANGED <<contracts, clarifications, milestones, terms, runs, applyLog,
                   today, parsed, extraction, temp, schedule>>

\* one turn of the loop for a file that can be read: process_contract runs
\* on it and its result is recorded
BatchProcessFile(r, text_ok, resp) ==
    /\ batch.started /\ ~batch.done /\ batch.next <= batch.total_files
    /\ Readable(batch.file_paths[batch.next])
    /\ ProcessContract(r, batch.file_paths[batch.next], text_ok, resp)
    /\ batch' = Accumulate(batch,
                   SingleFileResult(batch.file_paths[batch.next], runs'[r]))

\* one turn of the loop for a file that cannot be read: process_contract is
\* never called
BatchUnreadableFile ==
    /\ batch.started /\ ~batch.done /\ batch.next <= batch.total_files
    /\ ~Readable(batch.file_paths[batch.next])
    /\ batch' = Accumulate(batch, UnreadableResult(batch.file_paths[batch.next]))
    /\ UNCHANGED <<contracts, clarifications, milestones, terms, runs, applyLog,
                   today, parsed, extraction, temp, schedule>>

\* the loop is over: end_time is set and batch_results is returned
BatchFinish ==
    /\ batch.started /\ ~batch.done /\ batch.next > batch.total_files
    /\ batch' = [batch EXCEPT !.done = TRUE]
    /\ UNCHANGED <<contracts, clarifications, milestones, terms, runs, applyLog,
                   today, parsed, extraction, temp, schedule>>

NextBatch ==
    \/ \E file_paths \in SeqsUpTo(BatchPaths, Len(Uploads)) : BatchStart(file_paths)
    \/ \E r \in Runs, text_ok \in BOOLEAN, resp \in AIResponses :
          BatchProcessFile(r, text_ok, resp)
    \/ BatchUnreadableFile
    \/ BatchFinish

SpecBatch == Init /\ [][NextBatch]_vars

-----------------------------------------------------------------------------
(* AIExtractor on the text of a response                                   *)

\* JSON values as the parser gives them: t is the Python type, s the text of
\* a string, n the value of a number
JAbsent == [t |-> "absent", s |-> "", n |-> 0]
JNull == [t |-> "null", s |-> "", n |-> 0]
JList == [t |-> "list", s |-> "", n |-> 0]
JStr(s) == [t |-> "str", s |-> s, n |-> 0]
JNum(n) == [t |-> "num", s |-> "", n |-> n]

\* str(value) of a number
NumStr(n) == CASE n = 7 -> "7" [] n = 1000 -> "1000" [] OTHER -> "0"

\* float(cleaned) of _parse_numeric_value; None when it raises ValueError
AIFloat(s) == CASE s = "1000" -> 1000 [] s = "7" -> 7 [] OTHER -> None

\* value.replace('$', '').replace(',', '') ... .strip()
StripCurrency(s) == CASE s = "$1,000" -> "1000" [] s = " 7 " -> "7" [] OTHER -> s

\* data.get(key, default) followed by _clean_string
CleanValue(v, default) ==
    CASE v.t = "absent" -> CleanString(default)
      [] v.t = "null" -> ""
      [] v.t = "str" -> CleanString(v.s)
      [] v.t = "num" -> IF v.n = 0 THEN "" ELSE NumStr(v.n)
      [] OTHER -> ""

\* data.get(key) followed by _parse_numeric_value
ParseNumericValue(v) ==
    CASE v.t = "num" -> v.n
      [] v.t = "str" -> IF v.s \in {"", "null"} THEN None ELSE AIFloat(StripCurrency(v.s))
      [] OTHER -> None

\* data.get(key) followed by _parse_date
ParseDateValue(v) == IF v.t = "str" THEN AIParseDate(v.s) ELSE ""

RECURSIVE ValidateMilestoneItems(_, _)
\* the loop of _validate_milestones over the entries of the list, each a
\* dictionary with an amount ("dict") or something else ("text"): entries
\* that are not dictionaries are skipped
ValidateMilestoneItems(items, i) ==
    IF i > Len(items) THEN <<>>
    ELSE IF items[i] = "dict"
         THEN <<[amount |-> 500, due_date |-> "", description |-> ""]>>
              \o ValidateMilestoneItems(items, i + 1)
         ELSE ValidateMilestoneItems(items, i + 1)

\* data.get('payment_milestones', []) followed by _validate_milestones
ValidateMilestonesValue(m) ==
    IF m.t = "list" THEN ValidateMilestoneItems(m.items, 1) ELSE <<>>

\* _validate_extracted_data on a dictionary
ValidateExtractedData(fields) ==
    [client_name |-> CleanValue(fields.client_name, "Unknown Client"),
     total_value |-> ParseNumericValue(fields.total_value),
     start_date |-> ParseDateValue(fields.start_date),
     payment_milestones |-> ValidateMilestonesValue(fields.payment_milestones),
     confidence_score |-> AIConfidence]

\* a dictionary with none of the data keys
NoFields ==
    [client_name |-> JAbsent, total_value |-> JAbsent, start_date |-> JAbsent,
     payment_milestones |-> [t |-> "absent", items |-> <<>>]]

\* the dictionaries a response carries as its data
FieldSets ==
    [client_name : {JAbsent, JNull, JStr(" Acme "), JNum(7)},
     total_value : {JNull, JNum(1000), JStr("$1,000"), JStr("abc"), JList},
     start_date : {JNull, JStr("12/01/2024"), JStr("soon"), JNum(7)},
     payment_milestones :
        {[t |-> "absent", items |-> <<>>], [t |-> "null", items |-> <<>>],
         [t |-> "str", items |-> <<>>]}
        \cup [t : {"list"}, items : SeqsUpTo({"dict", "text"}, MaxMilestones)]]

\* values of the key extracted_data
Sections ==
    [t : {"dict"}, fields : FieldSets]
    \cup [t : {"null", "list", "str", "num"}, fields : {NoFields}]

\* values of the key clarifications_needed
ClarificationLists ==
    [t : {"absent", "null"}, entries : {<<>>}]
    \cup [t : {"list"}, entries : SeqsUpTo({[field |-> "start_date",
                                            question |-> "q", context |-> "text"]},
                                          MaxClar)]

\* what json.loads gives for the text of a response: the two-section
\* dictionary, a dictionary without the key extracted_data (with data keys
\* or with none of them), a list or a string (which may hold the text
\* 'extracted_data'), a number, null, a boolean, or a JSONDecodeError
NoJson ==
    [t |-> "invalid", has |-> FALSE, section |-> [t |-> "null", fields |-> NoFields],
     clarifications |-> [t |-> "absent", entries |-> <<>>], fields |-> NoFields]

JsonValues ==
    {NoJson}
    \cup {[NoJson EXCEPT !.t = "dict", !.has = TRUE, !.section = sec,
                         !.clarifications = cl] :
             sec \in Sections, cl \in ClarificationLists}
    \cup {[NoJson EXCEPT !.t = "dict", !.fields = f] : f \in FieldSets \cup {NoFields}}
    \cup {[NoJson EXCEPT !.t = t, !.has = h] : t \in {"list", "str"}, h \in BOOLEAN}
    \cup {[NoJson EXCEPT !.t = t] : t \in {"num", "null", "bool"}}

\* _parse_ai_response up to json.loads, for a text that is bare ("none"),
\* in a ```json fence ("json") or in a ``` fence ("plain"): the ```json
\* prefix and the ``` suffix are cut off; after a bare ``` prefix the text
\* is not JSON
Loads(fence, json) == IF fence = "plain" THEN NoJson ELSE json

\* messages of the exceptions the call of the model service raises
ServiceErrors ==
    {"400 API key not valid", "401 Authentication failed",
     "429 Quota exceeded", "429 Rate limit reached",
     "Request timeout", "504 Deadline Exceeded", "500 Internal error"}

\* keyword in str(e).lower()
InMessage(keyword, message) ==
    \/ keyword = "api key" /\ message = "400 API key not valid"
    \/ keyword = "authentication" /\ message = "401 Authentication failed"
    \/ keyword = "quota" /\ message = "429 Quota exceeded"
    \/ keyword = "rate limit" /\ message = "429 Rate limit reached"
    \/ keyword = "timeout" /\ message = "Request timeout"

\* a handler that reports every failure with the same text
RaisedAlike(message) == <<"AI extraction failed", "">>

\* the ValueError the except clause of extract_contract_with_ai raises for
\* an exception with the given message
Raised(message) ==
    IF InMessage("api key", message) \/ InMessage("authentication", message)
    THEN <<"Gemini API key is invalid", "">>
    ELSE IF InMessage("quota", message) \/ InMessage("rate limit", message)
    THEN <<"Gemini rate limit exceeded", "">>
    ELSE IF InMessage("timeout", message)
    THEN <<"Gemini API request timed out", "">>
    ELSE <<"AI extraction failed", message>>

\* _parse_ai_response after json.loads: raised with its message, or the
\* dictionary full_response and whether it was wrapped
ParseAIResponse(v) ==
    LET failed == [raised |-> TRUE, message |-> "", wrapped |-> FALSE, full |-> v]
    IN IF v.t = "invalid"
       THEN [failed EXCEPT !.message = "AI returned invalid JSON"]
       ELSE IF v.t \in {"num", "null", "bool"}
       THEN \* 'extracted_data' in parsed_data raises TypeError
            [failed EXCEPT !.message = "argument is not iterable"]
       ELSE IF v.has
       THEN [raised |-> FALSE, message |-> "", wrapped |-> FALSE, full |-> v]
       ELSE [raised |-> FALSE, message |-> "", wrapped |-> TRUE, full |-> v]

\* what extract_contract_with_ai gives for a response of the service: the
\* error it raises, or the dictionary it returns
ExtractionOutcome(resp) ==
    LET v == Loads(resp.fence, resp.json)
        p == ParseAIResponse(v)
        section == IF p.wrapped THEN [t |-> IF v.t = "dict" THEN "dict" ELSE v.t,
                                       fields |-> v.fields]
                   ELSE v.section
        cl == IF p.wrapped THEN [t |-> "list", entries |-> <<>>]
              ELSE v.clarifications
        failed(message) ==
            [raised |-> TRUE, error |-> Raised(message), wrapped |-> FALSE,
             data |-> ValidateExtractedData(NoFields), clarifications |-> <<>>]
    IN IF resp.kind = "error" THEN failed(resp.message)
       ELSE IF p.raised THEN failed(p.message)
       ELSE IF ~p.wrapped /\ v.t # "dict"
       THEN \* full_response.get on a list or a string
            failed("object has no attribute get")
       ELSE IF section.t # "dict"
       THEN \* data.get in _validate_extracted_data
            failed("object has no attribute get")
       ELSE IF cl.t = "null"
       THEN \* len(clarifications)
            failed("object of type NoneType has no len()")
       ELSE [raised |-> FALSE, error |-> <<"", "">>, wrapped |-> p.wrapped,
             data |-> ValidateExtractedData(section.fields),
             clarifications |-> cl.entries]

\* the kind of failure a response of the service is: the exception it
\* raised, or a text that is not JSON; "" for everything else
FailureKind(resp) ==
    IF resp.kind = "error"
    THEN CASE resp.message \in {"400 API key not valid", "401 Authentication failed"}
                -> "authentication"
           [] resp.message \in {"429 Quota exceeded", "429 Rate limit reached"}
                -> "rate_limit"
           [] resp.message \in {"Request timeout", "504 Deadline Exceeded"}
                -> "timeout"
           [] OTHER -> ""
    ELSE IF Loads(resp.fence, resp.json).t = "invalid" THEN "malformed_json" ELSE ""

\* the responses of the model service: an exception, or a text
ServiceResponses ==
    [kind : {"error"}, message : ServiceErrors, fence : {"none"}, json : {NoJson}]
    \cup [kind : {"text"}, message : {""}, fence : {"none", "json", "plain"}, json : JsonValues]

\* extract_contract_with_ai is called and the service gives the response at
\* hand
ExtractContractWithAI ==
    /\ ~extraction.called
    /\ extraction' = [called |-> TRUE, response |-> extraction.response,
                      outcome |-> ExtractionOutcome(extraction.response)]
    /\ UNCHANGED <<contracts, clarifications, milestones, terms, runs, applyLog,
                   today, parsed, batch, temp, schedule>>

InitExtractor ==
    /\ contracts = <<>>
    /\ clarifications = <<>>
    /\ milestones = <<>>
    /\ terms = {}
    /\ runs = [r \in Runs |-> NoResult]
    /\ applyLog = [contract |-> 0, returns |-> <<>>]
    /\ today = Day("2024-12-01")
    /\ parsed = NoParse
    /\ batch = NoBatch
    /\ \E resp \in ServiceResponses : extraction = [called |-> FALSE, response |-> resp]
    /\ temp = NotCalled
    /\ schedule = NotCalled

NextExtractor == ExtractContractWithAI

SpecExtractor == InitExtractor /\ [][NextExtractor]_vars

-----------------------------------------------------------------------------
(* Properties of the processing pipeline                                   *)

\* the step in which process_contract returns for upload r
Returns(r) == ~runs[r].returned /\ runs'[r].returned

\* C1: whenever process_contract returns success, the stored status of the
\* contract it names is needs_clarification if the response of the model
\* service held at least one clarification entry and completed otherwise,
\* never uploaded or processing
C1_StatusOnSuccess ==
    [][\A r \in Runs :
          Returns(r) /\ runs'[r].success =>
             contracts'[runs'[r].contract_id].status =
                IF runs'[r].clarifications_count >= 1
                THEN "needs_clarification" ELSE "completed"]_vars

\* C2: after a run whose response lists n >= 1 clarification entries, the
\* contract has exactly n clarification rows, all unanswered, and its status
\* is needs_clarification
C2_OneRowPerEntry ==
    [][\A r \in Runs :
          Returns(r) /\ runs'[r].clarifications_count >= 1 =>
             LET id == runs'[r].contract_id
             IN /\ Cardinality(RowsOf(clarifications', id)) =
                      runs'[r].clarifications_count
                /\ Answered(clarifications', id) = {}
                /\ contracts'[id].status = "needs_clarification"]_vars

\* C3: when the call of the model service fails after the placeholder was
\* created, process_contract returns with no contract of that run left in
\* status processing
C3_NoProcessingAfterAIFailure ==
    [][\A r \in Runs :
          Returns(r) /\ ~runs'[r].success /\ runs'[r].placeholder # 0 =>
             contracts'[runs'[r].placeholder].status # "processing"]_vars

\* C4 as stated: the placeholder row is created before the text is
\* extracted, so a run whose text extraction fails leaves a placeholder row
C4_PlaceholderBeforeText ==
    [][\A r \in Runs :
          Returns(r) /\ runs'[r].error = "Failed to extract PDF text" =>
             Len(contracts') = Len(contracts) + 1]_vars

\* C4 amended: the text is extracted first and the placeholder row is
\* created only once that succeeded; a run whose text extraction fails
\* creates no contract row and names none
C4_TextBeforePlaceholder ==
    [][\A r \in Runs :
          Returns(r) =>
             IF runs'[r].error = "Failed to extract PDF text"
             THEN contracts' = contracts /\ runs'[r].placeholder = 0
             ELSE runs'[r].placeholder # 0 =>
                     /\ Len(contracts') = Len(contracts) + 1
                     /\ runs'[r].placeholder = Len(contracts')]_vars

\* a run failed at text extraction while an earlier run had left its row
C4_Witness ==
    \E r \in Runs :
       /\ runs[r].returned
       /\ runs[r].error = "Failed to extract PDF text"
       /\ Len(contracts) = 1

\* C5 as stated: once a contract is completed, needs_clarification or error,
\* no operation sets its status back to processing
C5_NeverBackToProcessing ==
    [][\A id \in 1..Len(contracts) :
          contracts[id].status \in {"completed", "needs_clarification", "error"}
             => contracts'[id].status # "processing"]_vars

\* C5 amended: only the status-update endpoint, asked for processing, sets
\* such a contract back to processing; processing runs, answers, the apply
\* endpoint and the fix-status command never do
C5_OnlyStatusEndpointReopens ==
    [][\A id \in 1..Len(contracts) :
          /\ contracts[id].status \in {"completed", "needs_clarification", "error"}
          /\ contracts'[id].status = "processing"
          => /\ contracts' = [contracts EXCEPT ![id].status = "processing"]
             /\ UNCHANGED <<clarifications, milestones, terms, runs>>]_vars

\* a completed contract with all its clarifications answered, after both
\* uploads were served
C5_Witness ==
    /\ \A r \in Runs : runs[r].returned
    /\ \E id \in 1..Len(contracts) :
          /\ contracts[id].status = "completed"
          /\ Answered(clarifications, id) # {}
          /\ Unanswered(clarifications, id) = {}
          /\ contracts[id].start_date = Day("2024-12-01")

-----------------------------------------------------------------------------
(* Properties of the clarification cycle                                   *)

\* C6: the answer and apply operations move a contract from
\* needs_clarification to completed only into a state where it has no
\* unanswered clarification and holds the fields apply_clarifications
\* computes from its answered ones; while any clarification is unanswered
\* they leave the status needs_clarification
C6_CompletedOnlyWhenAllAnswered ==
    [][\A id \in 1..Len(contracts) :
          contracts[id].status = "needs_clarification" =>
             /\ contracts'[id].status \in {"needs_clarification", "completed"}
             /\ Unanswered(clarifications', id) # {} =>
                   contracts'[id].status = "needs_clarification"
             /\ contracts'[id].status = "completed" =>
                   /\ Unanswered(clarifications', id) = {}
                   /\ contracts'[id] =
                         [ApplyClarifications(contracts[id], id, clarifications').c
                             EXCEPT !.status = "completed"]]_vars

\* a contract completed by the cycle, its answered payment terms in the notes
C6_Witness ==
    /\ contracts[2].status = "completed"
    /\ contracts[2].notes # <<>>
    /\ Unanswered(clarifications, 2) = {}
    /\ \E k \in Answered(clarifications, 2) :
          clarifications[k].field_name = "payment_terms"

\* C7: when the last unanswered clarification of a needs_clarification
\* contract is answered with a non-empty answer, the answer operation ends
\* with the answer in its target field (a start_date answer 2024-12-01 makes
\* start_date that day) and with the stored status completed
C7_LastAnswerCompletes ==
    [][\A k \in 1..Len(clarifications) :
          LET id == clarifications[k].contract
              field_name == Lower(clarifications[k].field_name)
              answer == clarifications'[k].user_answer
          IN /\ contracts[id].status = "needs_clarification"
             /\ Unanswered(clarifications, id) = {k}
             /\ Unanswered(clarifications', id) = {}
             => /\ contracts'[id].status = "completed"
                /\ field_name = "start_date" /\ answer = "2024-12-01" =>
                      contracts'[id].start_date = Day("2024-12-01")
                /\ field_name = "client_name" =>
                      contracts'[id].client_name = answer
                /\ field_name = "contract_number" =>
                      contracts'[id].contract_number = answer]_vars

\* C8: of consecutive apply_clarifications calls on one contract with no
\* answer in between, every call after the first returns an empty
\* updates_made list
C8_SecondCallReturnsNothing ==
    \A i \in 2..Len(applyLog.returns) : applyLog.returns[i].updates_made = <<>>

\* C9: of consecutive apply_clarifications calls on one contract with no
\* answer in between, every call after the first leaves every contract
\* field as the call before left it
C9_SecondCallChangesNothing ==
    \A i \in 2..Len(applyLog.returns) :
       applyLog.returns[i].fields = applyLog.returns[i - 1].fields

\* C10: applying an answered end_date clarification whose answer is, in any
\* letter case, ongoing, perpetual, indefinite or none sets end_date to null
\* whatever it was before; a call of apply_clarifications returns with
\* end_date null when the end_date answer it applies last is such a word
C10_OngoingClearsEndDate ==
    /\ \A k \in 1..Len(clarifications) :
          /\ clarifications[k].answered
          /\ Lower(clarifications[k].field_name) = "end_date"
          /\ Lower(clarifications[k].user_answer) \in OngoingWords
          => ApplyOne([c |-> contracts[clarifications[k].contract], u |-> <<>>],
                      clarifications[k]).c.end_date = None
    /\ \A i \in 1..Len(applyLog.returns) :
          LET ks == {k \in Answered(clarifications, applyLog.contract) :
                        Lower(clarifications[k].field_name) = "end_date"}
          IN /\ ks # {}
             /\ Lower(clarifications[CHOOSE k \in ks : \A j \in ks : k <= j]
                         .user_answer) \in OngoingWords
             => applyLog.returns[i].fields.end_date = None

\* the contract whose end date was defaulted from its start date, after its
\* one clarification was answered Perpetual and applied
C10_Witness ==
    /\ Len(clarifications) = 1
    /\ clarifications[1].field_name = "end_date"
    /\ clarifications[1].user_answer = "Perpetual"
    /\ contracts[2].start_date = Day("2024-12-01")
    /\ applyLog.contract = 2
    /\ Len(applyLog.returns) >= 1
    /\ applyLog.returns[1].fields.end_date = None

\* C11: an empty or whitespace-only answer to a clarification is rejected
\* and changes nothing: the submission is served, and no state it can lead
\* to differs from the state before in any clarification row or any contract
C11_EmptyAnswerChangesNothing ==
    \A k \in 1..Len(clarifications) : \A raw \in EmptyAnswers :
       /\ ENABLED AnswerClarification(k, raw)
       /\ ~ENABLED (AnswerClarification(k, raw) /\ vars' # vars)

\* an answered clarification of a contract still waiting for another answer
C11_Witness ==
    \E k \in 1..Len(clarifications) :
       /\ clarifications[k].answered
       /\ clarifications[k].user_answer # ""
       /\ Unanswered(clarifications, clarifications[k].contract) # {}
       /\ contracts[clarifications[k].contract].status = "needs_clarification"

-----------------------------------------------------------------------------
(* Properties of payment milestones and contract dates                     *)

\* C12: a save of a milestone changes its status only from pending to
\* overdue, and does so exactly when the due date it saves is before the
\* current date; it never turns overdue back into pending, not even when
\* the due date is moved into the future, and never changes a paid
\* milestone, for which is_overdue is false
C12_SaveOnlyPendingToOverdue ==
    /\ [](\A i \in 1..Len(milestones) :
             milestones[i].status = "paid" =>
                ~IsOverdue(milestones[i].status, milestones[i].due_date))
    /\ [][/\ \A i \in 1..Len(milestones) : \A req \in UpdateRequests :
                UpdateMilestone(i, req) =>
                   LET old == milestones[i]
                       new == milestones'[i]
                   IN /\ new.status # old.status =>
                            old.status = "pending" /\ new.status = "overdue"
                      /\ old.status = "pending" /\ UpdateMilestoneRow(old, req).ok =>
                            (new.status = "overdue" <=> new.due_date < today)
          /\ \A id \in 1..Len(contracts) : \A req \in AddRequests :
                AddMilestone(id, req) /\ Len(milestones') > Len(milestones) =>
                   LET new == milestones'[Len(milestones')]
                   IN new.status = IF new.due_date < today THEN "overdue"
                                   ELSE "pending"]_vars

\* an overdue milestone whose due date now lies in the future
C12_Witness ==
    \E i \in 1..Len(milestones) :
       /\ milestones[i].status = "overdue"
       /\ milestones[i].due_date > today

\* C13: in every reachable state a contract with both a start date and an
\* end date has the end date on or after the start date
C13_EndNotBeforeStart ==
    \A id \in 1..Len(contracts) :
       contracts[id].start_date # None /\ contracts[id].end_date # None =>
          contracts[id].end_date >= contracts[id].start_date

\* C14: for every extraction result with a start date and without a usable
\* end date, the contract the run stores has the end date 365 days after
\* the start date; without a start date either, its end date stays null
C14_DefaultEndDate ==
    [][\A r \in Runs : \A resp \in DatedResponses :
          ProcessContract(r, "b.pdf", TRUE, resp) /\ runs'[r].success =>
             LET ai == ValidatedData(resp)
                 start_date == ParseDateFromString(ai.start_date)
                 stored == contracts'[runs'[r].contract_id]
             IN ParseDateFromString(ai.end_date) = None =>
                   stored.end_date = IF start_date # None
                                     THEN start_date + OneYear ELSE None]_vars

\* C15: every stored payment milestone has an amount above zero, whichever
\* operation created or changed it
C15_AmountPositive ==
    \A i \in 1..Len(milestones) : milestones[i].amount > 0

-----------------------------------------------------------------------------
(* Properties of partial failures                                          *)

\* C18: when some milestones of the list fail to be created, every other
\* milestone of the list is stored, the contract's own field updates and
\* status stay stored, payment_milestones_created is the number of milestone
\* rows stored for the contract, and the warnings hold one entry per failed
\* row
C18_PartialMilestoneFailure ==
    [][\A r \in Runs : \A file \in Files : \A resp \in AIResponses :
          ProcessContract(r, file, TRUE, resp) /\ runs'[r].success =>
             LET id == runs'[r].contract_id
                 ai == ValidatedData(resp)
                 ms == MapMilestones(ai.payment_milestones, 1)
                 good == {i \in 1..Len(ms) : MilestoneInsertOk(ms[i])}
                 stored == {i \in 1..Len(milestones') : milestones'[i].contract = id}
             IN /\ Cardinality(stored) = Cardinality(good)
                /\ runs'[r].payment_milestones_created = Cardinality(stored)
                /\ Len(runs'[r].warnings) = Len(ms) - Cardinality(good)
                /\ contracts'[id] = UpdatedContract(file, ai)]_vars

\* C19: every non-fatal failure of a run that returns success (a milestone
\* row, the payment-terms row, a clarification row that could not be saved)
\* has an entry in the warnings the run returns
C19_FailuresAreWarnings ==
    [][\A r \in Runs : \A file \in Files : \A resp \in AIResponses :
          ProcessContract(r, file, TRUE, resp) /\ runs'[r].success =>
             LET id == runs'[r].contract_id
                 ms == MapMilestones(ValidatedData(resp).payment_milestones, 1)
                 cl == resp.clarifications_needed
                 stored == {i \in 1..Len(milestones') : milestones'[i].contract = id}
                 lost_milestones == Len(ms) - Cardinality(stored)
                 lost_terms == IF id \in terms' THEN 0 ELSE 1
                 lost_clarifications ==
                    Cardinality({i \in 1..Len(cl) : ~ClarificationInsertOk(cl[i])})
             IN Len(runs'[r].warnings) >=
                   lost_milestones + lost_terms + lost_clarifications]_vars

-----------------------------------------------------------------------------
(* Properties of the parser                                                *)

\* C16: for a document from which neither method extracts any text,
\* extract_payment_information reports confidence_score 0,
\* extraction_successful False and a non-empty list of errors, so that the
\* orchestrator never hands an empty text to the model service
C16_NoTextIsFailure ==
    /\ parsed.call = "extract_payment_information"
       /\ parsed.doc.exists /\ Lower(parsed.doc.suffix) = ".pdf" /\ ~parsed.doc.large
       /\ NoText(parsed.result.full_text)
       => /\ parsed.result.confidence_score = 0
          /\ ~parsed.result.extraction_successful
          /\ parsed.result.errors # <<>>
    /\ parsed.call = "_extract_pdf_text" /\ ~parsed.raised
       => ~NoText(parsed.result.full_text)

\* C17: extract_payment_information on a path that does not exist, or on a
\* file whose name does not end in .pdf, raises PDFParsingError to its
\* caller instead of returning a result
C17_BadPathRaises ==
    /\ parsed.call = "extract_payment_information"
    /\ ~parsed.doc.exists \/ Lower(parsed.doc.suffix) # ".pdf"
    => parsed.raised

-----------------------------------------------------------------------------
(* Properties of batch processing                                          *)

\* C20: when a batch run over n files has ended, whatever stage each file
\* failed at, the contracts list has n entries, successful_extractions +
\* failed_extractions = n, and high_confidence + medium_confidence +
\* low_confidence = successful_extractions
C20_BatchCountsEveryFile ==
    batch.started /\ batch.done
    => /\ Len(batch.contracts) = Len(batch.file_paths)
       /\ batch.successful_extractions + batch.failed_extractions
             = Len(batch.file_paths)
       /\ batch.high_confidence + batch.medium_confidence + batch.low_confidence
             = batch.successful_extractions
       /\ \A i \in 1..Len(batch.contracts) :
             batch.contracts[i].file_path = batch.file_paths[i]

\* a batch of two files has ended with one success and one failure
C20_Witness ==
    /\ batch.started /\ batch.done
    /\ Len(batch.file_paths) = 2
    /\ batch.successful_extractions = 1
    /\ batch.failed_extractions = 1

-----------------------------------------------------------------------------
(* Properties of the AI extractor                                          *)

\* C21: a response that parses as JSON but is neither the two-section
\* dictionary nor a bare dictionary of data is rejected: the call raises and
\* never returns data made from it
C21_OtherShapesRejected ==
    extraction.called /\ extraction.response.kind = "text"
    => LET v == Loads(extraction.response.fence, extraction.response.json)
       IN /\ v.t # "invalid"
          /\ ~(v.t = "dict" /\ v.has)
          /\ ~(v.t = "dict" /\ ~v.has /\ v.fields # NoFields)
          => extraction.outcome.raised

\* C22: for every extracted_data section of a two-section response, validation
\* returns a record: well-formed fields keep their normalized values and
\* malformed ones become the default or null
C22_ValidationNeverFailsAsAWhole ==
    extraction.called /\ extraction.response.kind = "text"
    => LET v == Loads(extraction.response.fence, extraction.response.json)
           f == v.section.fields
           d == extraction.outcome.data
       IN v.t = "dict" /\ v.has /\ v.clarifications.t # "null"
          => /\ ~extraction.outcome.raised
             /\ f.client_name.t = "str" => d.client_name = Strip(f.client_name.s)
             /\ f.client_name.t = "absent" => d.client_name = "Unknown Client"
             /\ f.total_value.t = "num" => d.total_value = f.total_value.n
             /\ f.total_value = JStr("$1,000") => d.total_value = 1000
             /\ f.total_value \in {JStr("abc"), JList, JNull, JAbsent}
                   => d.total_value = None
             /\ f.start_date = JStr("12/01/2024") => d.start_date = "2024-12-01"
             /\ f.start_date \in {JStr("soon"), JNum(7), JNull, JAbsent}
                   => d.start_date = ""
             /\ v.section.t = "dict" /\ f.payment_milestones.t # "list"
                   => d.payment_milestones = <<>>

\* C23: an authentication, rate-limit, timeout or malformed-JSON failure
\* makes extract_contract_with_ai raise, and its message differs from the
\* message of every failure of another of the four kinds
C23_FailuresAreDistinctErrors ==
    extraction.called /\ FailureKind(extraction.response) # ""
    => /\ extraction.outcome.raised
       /\ \A other \in [kind : {"error"}, message : ServiceErrors,
                        fence : {"none"}, json : {NoJson}]
                       \cup [kind : {"text"}, message : {""}, fence : {"none", "json", "plain"},
                             json : {NoJson}] :
             /\ FailureKind(other) # ""
             /\ FailureKind(other) # FailureKind(extraction.response)
             => ExtractionOutcome(other).error # extraction.outcome.error

\* a timeout whose message does not name it has been raised to the caller
C23_Witness ==
    /\ extraction.called
    /\ extraction.response.kind = "error"
    /\ extraction.response.message = "504 Deadline Exceeded"
    /\ extraction.outcome.raised

-----------------------------------------------------------------------------
(* Properties of answered clarifications                                   *)

\* C24: a clarification that is answered stays answered with the same
\* stored answer: no step sets answered back to FALSE or replaces
\* user_answer or answered_at
C24_AnsweredIsTerminal ==
    [][\A k \in 1..Len(clarifications) :
          clarifications[k].answered
          => /\ k <= Len(clarifications')
             /\ clarifications'[k].answered
             /\ clarifications'[k].user_answer = clarifications[k].user_answer
             /\ clarifications'[k].answered_at = clarifications[k].answered_at]_vars

\* C25: a call of apply_clarifications that returns an empty list leaves
\* every stored contract as it was; a contract without answered
\* clarifications gets an empty list; and a field none of whose answered
\* clarifications names it keeps its stored value
C25_SavesOnlyUpdates ==
    [][\A id \in 1..Len(contracts) :
          ApplyClarificationsCall(id)
          => LET ret == applyLog'.returns[Len(applyLog'.returns)].updates_made
                 named(f) == \E k \in Answered(clarifications, id) :
                                Lower(clarifications[k].field_name) = f
             IN /\ ret = <<>> => contracts' = contracts
                /\ Answered(clarifications, id) = {} => ret = <<>>
                /\ \A j \in 1..Len(contracts) : j # id => contracts'[j] = contracts[j]
                /\ ~named("start_date")
                      => contracts'[id].start_date = contracts[id].start_date
                /\ ~named("end_date")
                      => contracts'[id].end_date = contracts[id].end_date
                /\ ~named("client_name")
                      => contracts'[id].client_name = contracts[id].client_name
                /\ ~named("total_value")
                      => contracts'[id].total_value = contracts[id].total_value
                /\ ~named("currency")
                      => contracts'[id].currency = contracts[id].currency
                /\ ~named("contract_number")
                      => contracts'[id].contract_number = contracts[id].contract_number
                /\ contracts'[id].status = contracts[id].status]_vars

\* apply_clarifications has returned an empty list for a contract that has
\* an answered clarification whose answer could not be parsed and an
\* unanswered one
C25_Witness ==
    /\ applyLog.contract # 0
    /\ applyLog.returns # <<>>
    /\ applyLog.returns[Len(applyLog.returns)].updates_made = <<>>
    /\ Answered(clarifications, applyLog.contract) # {}
    /\ Unanswered(clarifications, applyLog.contract) # {}

-----------------------------------------------------------------------------
(* Properties of the contract status                                       *)

\* C26: the status of every contract is one of the five declared values
C26_StatusIsDeclared ==
    \A id \in 1..Len(contracts) :
       contracts[id].status \in {"uploaded", "processing", "completed",
                                 "needs_clarification", "error"}

\* C27: every contract whose status is needs_clarification has at least one
\* unanswered clarification
C27_NeedsClarificationHasOpenQuestion ==
    \A id \in 1..Len(contracts) :
       contracts[id].status = "needs_clarification"
       => Unanswered(clarifications, id) # {}

-----------------------------------------------------------------------------
(* Properties of the temporary file                                        *)

\* C28: whenever _extract_pdf_text has returned or raised, the temporary
\* file it created no longer exists
C28_TempFileRemoved ==
    temp.called => ~temp.outcome.exists

-----------------------------------------------------------------------------
(* Properties of the rows of a run                                         *)

\* C29: every run whose text was extracted, and which so reaches the
\* creation of the placeholder, gets a new contract row of its own, also
\* when the file name was uploaded before; the clarification and milestone
\* rows it creates refer to that row, and the rows of other runs are left
\* alone
C29_OwnRowPerRun ==
    [][\A r \in Runs : \A file \in Files : \A resp \in AIResponses :
          ProcessContract(r, file, TRUE, resp) =>
             LET id == runs'[r].placeholder
             IN /\ Len(contracts') = Len(contracts) + 1
                /\ id = Len(contracts')
                /\ \A q \in Runs \ {r} : runs[q].placeholder # id
                /\ \A j \in 1..Len(contracts) : contracts'[j] = contracts[j]
                /\ \A k \in 1..Len(clarifications') :
                      IF k <= Len(clarifications)
                      THEN clarifications'[k] = clarifications[k]
                      ELSE clarifications'[k].contract = id
                /\ \A k \in 1..Len(milestones') :
                      IF k <= Len(milestones)
                      THEN milestones'[k] = milestones[k]
                      ELSE milestones'[k].contract = id]_vars

-----------------------------------------------------------------------------
(* Properties of the schedule tables                                       *)

\* C30: for a table classified as a payment schedule there is exactly one
\* entry per data row, in order, also for rows that are shorter than the
\* positions of the located columns
C30_OneEntryPerRow ==
    schedule.called /\ schedule.classified
    => /\ Len(schedule.entries) = Len(schedule.table.rows)
       /\ \A i \in 1..Len(schedule.entries) : schedule.entries[i].row_number = i

=============================================================================
